---- MODULE Spec2Model ----
(***************************************************************************)
(* Stock-Price-Prediction: the data acquisition layer                      *)
(* (utils/data_utils.py, StockDataFetcher) and the prediction ensemble     *)
(* (utils/prediction_models.py, StockPredictionModels).                    *)
(*                                                                         *)
(* Prices are fixed-point integers (cents), returns and percentage offsets *)
(* are basis points, dates are proleptic Gregorian ordinals (Python's      *)
(* date.toordinal) and a formatted date 'YYYY-MM-DD' is the triple         *)
(* <<year, month, day>>, whose lexicographic order is the order of the     *)
(* strings.                                                                *)
(***************************************************************************)
EXTENDS Integers, Sequences, FiniteSets, TLC

VARIABLES
    \* ---- process-wide state
    now,        \* the current day, as an ordinal (datetime.now())
    hashSeed,   \* the process's string-hash randomisation key (fixed per process)
    rng,        \* numpy's global generator: [seed |-> <<hi, lo>>, pos |-> draws made]
    \* ---- one call of StockDataFetcher.fetch_stock_data
    symbol, days, retries,
    fpc,        \* "idle" | "loop" | "except" | "done" | "raised"
    attempt,    \* the for loop's variable (0-based)
    log,        \* what the call did so far: download attempts and sleeps, in order
    result,     \* what the call returned
    ref,        \* an earlier synthetic result, kept to compare later calls with
    \* ---- one call of StockPredictionModels.predict_all_models
    data, horizon,
    ppc,        \* "idle" | "lstm" | "linear" | "random_forest" | "arima" | "direct" | "done" | "raised"
    results,    \* the dict literal being built: model name -> result
    raisedBy,   \* the model whose exception ended the call, or "none"
    built,      \* what the model that ran last built: its windows and rollout steps
    \* ---- the requests the threaded server is handling, one per thread
    req,        \* thread -> the request's position and its local variables
    \* ---- one request to the /prediction route
    route       \* its position, its local variables and its response

fetchVars   == <<now, hashSeed, rng, symbol, days, retries, fpc, attempt, log, result, ref>>
predictVars == <<data, horizon, ppc, results, raisedBy, built>>
reqVars     == <<req, route>>
vars        == <<now, hashSeed, rng, symbol, days, retries, fpc, attempt, log, result, ref,
                 data, horizon, ppc, results, raisedBy, built, req, route>>

(***************************************************************************)
(* Bounds of the model.                                                    *)
(***************************************************************************)
MaxDays == 3
HugeDays == 1000000
MaxRetries == 3
MaxRows == 2
MaxTicks == 1
MaxDraws == 1

Symbols     == {"AAPL", "ZZZZ"}
DaysValues  == (-1 .. MaxDays) \cup {HugeDays}
RetryValues == -1 .. MaxRetries
HashSeeds   == {0, 1}

(***************************************************************************)
(* Helpers on sequences and numbers.                                       *)
(***************************************************************************)
\* s[a] + ... + s[b], by halves
RECURSIVE SumRange(_, _, _)
SumRange(s, a, b) ==
    IF a > b THEN 0
    ELSE IF a = b THEN s[a]
    ELSE LET mid == (a + b) \div 2 IN SumRange(s, a, mid) + SumRange(s, mid + 1, b)

SumSeq(s) == SumRange(s, 1, Len(s))

Abs(x) == IF x < 0 THEN -x ELSE x

\* n / d rounded to the nearest integer (halves up), d > 0
RoundDiv(n, d) == (2 * n + d) \div (2 * d)

(***************************************************************************)
(* Dates: datetime arithmetic and strftime('%Y-%m-%d').                    *)
(***************************************************************************)
\* date(y, m, d).toordinal()
Ordinal(date) ==
    LET y   == IF date[2] <= 2 THEN date[1] - 1 ELSE date[1]
        era == y \div 400
        yoe == y - era * 400
        mp  == IF date[2] > 2 THEN date[2] - 3 ELSE date[2] + 9
        doy == (153 * mp + 2) \div 5 + date[3] - 1
        doe == yoe * 365 + yoe \div 4 - yoe \div 100 + doy
    IN  era * 146097 + doe - 305

\* strftime('%Y-%m-%d') of the day with ordinal o, as <<year, month, day>>
Strftime(o) ==
    LET z   == o + 305
        era == z \div 146097
        doe == z - era * 146097
        yoe == (doe - doe \div 1460 + doe \div 36524 - doe \div 146096) \div 365
        doy == doe - (365 * yoe + yoe \div 4 - yoe \div 100)
        mp  == (5 * doy + 2) \div 153
        d   == doy - (153 * mp + 2) \div 5 + 1
        m   == IF mp < 10 THEN mp + 3 ELSE mp - 9
        y   == yoe + era * 400 + (IF m <= 2 THEN 1 ELSE 0)
    IN  <<y, m, d>>

\* the order of two formatted dates, as strings
DateLess(a, b) ==
    \/ a[1] < b[1]
    \/ a[1] = b[1] /\ a[2] < b[2]
    \/ a[1] = b[1] /\ a[2] = b[2] /\ a[3] < b[3]

\* the first day the process runs on
StartDate == <<2024, 2, 29>>

\* end_date - timedelta(days=days): OverflowError when the timedelta or the
\* resulting date is out of range (dates run from 0001-01-01 to 9999-12-31)
StartDateRaises(today, d) ==
    \/ d > 999999999 \/ d < -999999999
    \/ today - d < 1
    \/ today - d > Ordinal(<<9999, 12, 31>>)

\* generate_demo_data raises for a negative days (pd.date_range rejects a negative
\* number of periods, line 78; a pandas that does not, leaves it to
\* np.random.normal's negative size, line 90) and when the first day precedes
\* Timestamp.min, 1677-09-21 (OutOfBoundsDatetime, line 78)
DateRangeRaises(today, d) ==
    \/ d < 0
    \/ today - (d - 1) < Ordinal(<<1677, 9, 21>>)

\* a date range that ends the day before `today`
DateRangeEndsYesterday(today, d) == [i \in 1 .. d |-> today - d + i - 1]

\* the days of pd.date_range(end=today, periods=d, freq='D')
DateRange(today, d) == [i \in 1 .. d |-> today - d + i]

(***************************************************************************)
(* numpy's global random generator and Python's string hash.               *)
(***************************************************************************)
SymCode(sym) == IF sym = "AAPL" THEN 1 ELSE 2

\* hash(symbol): a signed integer that depends on the process's hash key
StrHash(key, sym) == (2 * key - 1) * (SymCode(sym) * 40503 + 70001)

\* h % 2**32, written in base 65536 as <<high half, low half>>
Mod2Pow32(h) == <<(h \div 65536) % 65536, h % 65536>>

\* np.random.seed(s): the generator restarts from s
RandomSeed(s) == [seed |-> s, pos |-> 0]

\* the raw value of the draw made in state g: a function of the seed and of
\* the number of draws made since seeding, nothing else
RawDraw(g) == (g.seed[1] * 31 + g.seed[2] * 17 + g.pos * g.pos * 7 + g.pos * 3) % 5

\* the generator i draws after g
Advance(g, i) == [g EXCEPT !.pos = g.pos + i]

\* np.random.normal(0.0005, 0.02): a daily return, in basis points
DrawNormal(g) == 5 + (RawDraw(g) - 2) * 200

\* np.random.uniform(lo, hi), lo and hi in basis points
DrawUniform(g, lo, hi) == lo + (RawDraw(g) * (hi - lo)) \div 5

\* np.random.randint(lo, hi): lo <= value < hi
DrawRandint(g, lo, hi) == lo + (RawDraw(g) * (hi - lo)) \div 5

(***************************************************************************)
(* StockDataFetcher.generate_demo_data                                     *)
(***************************************************************************)
BasePrice(sym) ==
    CASE sym = "AAPL" -> 150 [] sym = "GOOGL" -> 140 [] sym = "MSFT" -> 380
      [] sym = "AMZN" -> 170 [] sym = "TSLA" -> 240  [] sym = "META" -> 300
      [] sym = "NFLX" -> 450 [] sym = "NVDA" -> 875  [] sym = "AMD" -> 140
      [] sym = "INTC" -> 35  [] OTHER -> 100

\* 10000 * exp(c / 10000), c in basis points (second-order fixed point)
ExpFixed(c) == 10000 + c + (c * c) \div 20000

\* returns = np.random.normal(0.0005, 0.02, days), drawn from g on
Returns(g, d) == [i \in 1 .. d |-> DrawNormal(Advance(g, i - 1))]

\* prices = base_price * np.exp(np.cumsum(returns)), in cents
Prices(sym, rets) ==
    [i \in 1 .. Len(rets) |->
        (BasePrice(sym) * ExpFixed(SumSeq(SubSeq(rets, 1, i)))) \div 100]

\* prices * (1 + offset), offset in basis points
Offset(price, bp) == (price * (10000 + bp)) \div 10000

\* no seeding: the generator goes on from wherever it is
DemoSeedSkipped(key, sym, g) == g

\* the seeding of line 81
DemoSeed(key, sym, g) == RandomSeed(Mod2Pow32(StrHash(key, sym)))

\* [raised, rows, rng]: whether the call raised, the frame it returned and the
\* generator it left behind
generate_demo_data(sym, d, today, key, g) ==
    IF DateRangeRaises(today, d)
    THEN [raised |-> TRUE, rows |-> <<>>, rng |-> g]
    ELSE LET dates  == DateRange(today, d)
             g0     == DemoSeed(key, sym, g)
             rets   == Returns(g0, d)
             prices == Prices(sym, rets)
             Row(i) ==
                [Date     |-> Strftime(dates[i]),
                 Open     |-> Offset(prices[i], DrawUniform(Advance(g0, d + i - 1), -100, 100)),
                 High     |-> Offset(prices[i], DrawUniform(Advance(g0, 2 * d + i - 1), 100, 300)),
                 Low      |-> Offset(prices[i], DrawUniform(Advance(g0, 3 * d + i - 1), -300, -100)),
                 Close    |-> prices[i],
                 Volume   |-> DrawRandint(Advance(g0, 4 * d + i - 1), 50000000, 100000000),
                 AdjClose |-> prices[i]]
         IN  [raised |-> FALSE, rows |-> [i \in 1 .. d |-> Row(i)], rng |-> Advance(g0, 5 * d)]

\* the generator a call of generate_demo_data leaves behind: a call that raises
\* on a negative days does so at line 78, before the seeding, or at line 90,
\* after it
DemoRngs(sym, d, today, key, g) ==
    LET out == generate_demo_data(sym, d, today, key, g)
    IN  IF out.raised /\ d < 0 THEN {g, DemoSeed(key, sym, g)} ELSE {out.rng}

(***************************************************************************)
(* StockDataFetcher.fetch_stock_data                                       *)
(***************************************************************************)
NoResult == [kind |-> "none", rows |-> <<>>]

\* what one yf.download call can do: return a frame of n >= 1 rows, an empty
\* frame, None, or raise
Outcomes ==
    {[st |-> "data", n |-> n] : n \in 1 .. MaxRows}
        \cup {[st |-> s, n |-> 0] : s \in {"empty", "none", "error"}}

\* the frame a download returns: n trading days before `today`, indexed by date
UpstreamFrame(today, n) == [i \in 1 .. n |-> [Index |-> today - n + i - 1, Close |-> 10000 + i]]

\* line 39: data is not None and not data.empty and len(data) > 0
Accepted(out) == out.st = "data" /\ out.n > 0

\* lines 41-43: reset_index(), then Date formatted as '%Y-%m-%d'
ResetIndex(frame) == [i \in 1 .. Len(frame) |-> [Date |-> Strftime(frame[i].Index), Close |-> frame[i].Close]]

\* a backoff that also sleeps after the last attempt
BackoffAlways(att, r) == <<[ev |-> "sleep", secs |-> (att + 1) * 5]>>

\* lines 48-52 and 56-59: sleep (attempt + 1) * 5 seconds unless this was the last attempt
Backoff(att, r) == IF att < r - 1 THEN <<[ev |-> "sleep", secs |-> (att + 1) * 5]>> ELSE <<>>

TryEvent(out) == [ev |-> "try", out |-> out]

\* lines 15-23: the call starts; the date arithmetic may raise into the outer handler
FetchCall(sym, d, r) ==
    /\ fpc = "idle"
    /\ symbol' = sym /\ days' = d /\ retries' = r
    /\ attempt' = 0 /\ log' = <<>> /\ result' = NoResult
    /\ fpc' = IF StartDateRaises(now, d) THEN "except" ELSE "loop"
    /\ UNCHANGED <<now, hashSeed, rng, ref>>
    /\ UNCHANGED <<predictVars, reqVars>>

\* lines 26-59: one iteration of `for attempt in range(retries)`
Attempt(out) ==
    /\ fpc = "loop" /\ attempt < retries
    /\ IF Accepted(out)
       THEN /\ result' = [kind |-> "upstream", rows |-> ResetIndex(UpstreamFrame(now, out.n))]
            /\ log' = Append(log, TryEvent(out))
            /\ fpc' = "done"
            /\ UNCHANGED attempt
       ELSE /\ log' = Append(log, TryEvent(out)) \o Backoff(attempt, retries)
            /\ attempt' = attempt + 1
            /\ UNCHANGED <<fpc, result>>
    /\ UNCHANGED <<now, hashSeed, rng, symbol, days, retries, ref>>
    /\ UNCHANGED <<predictVars, reqVars>>

\* lines 61-65: the loop is exhausted; demo data is generated inside the try
Fallback ==
    /\ fpc = "loop" /\ attempt >= retries
    /\ LET g == generate_demo_data(symbol, days, now, hashSeed, rng)
       IN  /\ rng' \in DemoRngs(symbol, days, now, hashSeed, rng)
           /\ IF g.raised
              THEN fpc' = "except" /\ UNCHANGED result
              ELSE fpc' = "done" /\ result' = [kind |-> "demo", rows |-> g.rows]
    /\ UNCHANGED <<now, hashSeed, symbol, days, retries, attempt, log, ref>>
    /\ UNCHANGED <<predictVars, reqVars>>

\* lines 67-70: the outer handler generates demo data again, outside any try
ExceptFallback ==
    /\ fpc = "except"
    /\ LET g == generate_demo_data(symbol, days, now, hashSeed, rng)
       IN  /\ rng' \in DemoRngs(symbol, days, now, hashSeed, rng)
           /\ IF g.raised
              THEN fpc' = "raised" /\ UNCHANGED result
              ELSE fpc' = "done" /\ result' = [kind |-> "demo", rows |-> g.rows]
    /\ UNCHANGED <<now, hashSeed, symbol, days, retries, attempt, log, ref>>
    /\ UNCHANGED <<predictVars, reqVars>>

\* the call's frame is gone once the caller has taken the result or the exception
FrameGone ==
    /\ fpc \in {"done", "raised"}
    /\ fpc' = "idle"
    /\ symbol' = "" /\ days' = 0 /\ retries' = 0
    /\ attempt' = 0 /\ log' = <<>> /\ result' = NoResult

\* the caller takes the result (or the exception)
FetchReturn ==
    /\ FrameGone
    /\ UNCHANGED <<now, hashSeed, rng, ref>>
    /\ UNCHANGED <<predictVars, reqVars>>

\* the caller takes a synthetic result and keeps it, to compare later calls with
FetchReturnKeep ==
    /\ fpc = "done" /\ result.kind = "demo" /\ ref.kind = "none"
    /\ FrameGone
    /\ ref' = [kind |-> "demo", symbol |-> symbol, days |-> days, rows |-> result.rows]
    /\ UNCHANGED <<now, hashSeed, rng>>
    /\ UNCHANGED <<predictVars, reqVars>>

\* midnight passes
Tick ==
    /\ fpc = "idle"
    /\ now < Ordinal(StartDate) + MaxTicks
    /\ now' = now + 1
    /\ UNCHANGED <<hashSeed, rng, symbol, days, retries, fpc, attempt, log, result, ref>>
    /\ UNCHANGED <<predictVars, reqVars>>

\* some other code draws from the global generator between two calls
OtherDraw ==
    /\ fpc = "idle"
    /\ rng.pos % 5 < MaxDraws
    /\ rng' = Advance(rng, 1)
    /\ UNCHANGED <<now, hashSeed, symbol, days, retries, fpc, attempt, log, result, ref>>
    /\ UNCHANGED <<predictVars, reqVars>>

NothingBuilt == [model |-> "none", X |-> <<>>, y |-> <<>>, steps |-> <<>>, smoothed |-> <<>>]

PredictIdle ==
    /\ data = <<>> /\ horizon = 0 /\ ppc = "idle" /\ results = <<>> /\ raisedBy = "none"
    /\ built = NothingBuilt

FetchIdle ==
    /\ symbol = "" /\ days = 0 /\ retries = 0
    /\ fpc = "idle" /\ attempt = 0 /\ log = <<>> /\ result = NoResult
    /\ ref = [kind |-> "none", symbol |-> "", days |-> 0, rows |-> <<>>]

\* the threads of the server (app.run: a new thread for each request), none
\* of them started
Threads == 1 .. 2
NoRequest ==
    [pc |-> "idle", symbol |-> "", days |-> 0, returns |-> <<>>, cols |-> <<>>,
     rows |-> <<>>, scaler |-> <<>>, restored |-> <<>>]
RequestsIdle == req = [t \in Threads |-> NoRequest]

\* no request to /prediction yet
NoRoute ==
    [pc |-> "idle", symbol |-> "", days_to_predict |-> 0, fetched |-> FALSE,
     closing_prices |-> <<>>, status |-> 0, stored |-> FALSE,
     predictions |-> <<>>, metrics |-> <<>>]

Init ==
    /\ now = Ordinal(StartDate)
    /\ hashSeed \in HashSeeds
    /\ rng = RandomSeed(<<0, 0>>)
    /\ FetchIdle
    /\ PredictIdle
    /\ RequestsIdle
    /\ route = NoRoute

\* fetch_stock_data under every behaviour of the upstream source
Next ==
    \/ \E sym \in Symbols, d \in DaysValues, r \in RetryValues : FetchCall(sym, d, r)
    \/ \E out \in Outcomes : Attempt(out)
    \/ Fallback
    \/ ExceptFallback
    \/ FetchReturn

Spec == Init /\ [][Next]_vars

\* one call of fetch_stock_data, from its start to its end
NextCall ==
    \/ \E sym \in Symbols, d \in DaysValues, r \in RetryValues : FetchCall(sym, d, r)
    \/ \E out \in Outcomes : Attempt(out)
    \/ Fallback
    \/ ExceptFallback

\* the next step of a call that has started
CallStep ==
    \/ \E out \in Outcomes : Attempt(out)
    \/ Fallback
    \/ ExceptFallback

\* a call that has started goes on: every download ends within its timeout
\* (line 35) by data, an empty frame or an exception, every sleep ends, and
\* the fallback runs to its end. Nothing makes a caller call.
SpecFair == Init /\ [][NextCall]_vars /\ WF_vars(CallStep)

\* repeated calls that fall back to demo data, days apart and with other users
\* of the generator in between
NextDemo ==
    \/ \E sym \in Symbols, d \in DaysValues, r \in 0 .. 1 : FetchCall(sym, d, r)
    \/ \E out \in Outcomes : Attempt(out)
    \/ Fallback
    \/ ExceptFallback
    \/ FetchReturn
    \/ FetchReturnKeep
    \/ Tick
    \/ OtherDraw

SpecDemo == Init /\ [][NextDemo]_vars

(***************************************************************************)
(* StockPredictionModels (utils/prediction_models.py).                     *)
(* A price series is a sequence of integers (cents); Python's None is the  *)
(* empty tuple and a value v that may be None is <<v>>.                    *)
(***************************************************************************)
None == <<>>
Some(v) == <<v>>
Absent == [pred |-> None, rmse |-> None, mae |-> None]
\* how a model's call ends: by an exception or by a result; X, y are the
\* windows it built, steps its rollout and smoothed its smoothed series (none
\* for a model without)
Raised ==
    [raised |-> TRUE, res |-> Absent, X |-> <<>>, y |-> <<>>, steps |-> <<>>, smoothed |-> <<>>]
Returned(res, X, y, steps) ==
    [raised |-> FALSE, res |-> res, X |-> X, y |-> y, steps |-> steps, smoothed |-> <<>>]

\* a check that lets every series through
InsufficientDataNever(X) == FALSE

\* lines 51 and 132: if len(X) < 10: return None, None, None
InsufficientData(X) == Len(X) < 10

\* a result that comes back without its metrics
ForecastNoMetrics(p, r, m) == [pred |-> Some(p), rmse |-> None, mae |-> None]

\* return future_predictions, rmse, mae
Forecast(p, r, m) == [pred |-> Some(p), rmse |-> Some(r), mae |-> Some(m)]

MaxLen == 71
MaxHorizon == 30
LengthValues  == {0, 1, 2, 10, 11, 19, 20, 59, 60, 69, 70} \cup {MaxLen}
HorizonValues == {0, 1, 2, 5} \cup {MaxHorizon}
SeriesKinds   == {"flat", "linear", "step", "cents"}
LstmWeights   == 1 .. 3
ForestFits    == 1 .. 2

\* the input series: 100.00 throughout; 10.00 + 2.00 * i; 100.00 with the last
\* three days at 130.00; 123.43 with the last day at 123.45
SeriesOf(kind, L) ==
    [i \in 1 .. L |->
        CASE kind = "flat"   -> 10000
          [] kind = "linear" -> 1000 + 200 * (i - 1)
          [] kind = "step"   -> IF i > L - 3 THEN 13000 ELSE 10000
          [] OTHER           -> IF i = L THEN 12345 ELSE 12343]

Range(s) == {s[i] : i \in 1 .. Len(s)}
MinSeq(s) == CHOOSE m \in Range(s) : \A x \in Range(s) : m <= x
MaxSeq(s) == CHOOSE m \in Range(s) : \A x \in Range(s) : m >= x

RECURSIVE Gcd(_, _)
Gcd(a, b) == IF b = 0 THEN a ELSE Gcd(b, a % b)

\* the integer part of the square root of x >= 0, searched in lo .. hi
RECURSIVE SqrtIn(_, _, _)
SqrtIn(x, lo, hi) ==
    IF lo >= hi THEN lo
    ELSE LET mid == (lo + hi + 1) \div 2
         IN  IF mid * mid <= x THEN SqrtIn(x, mid, hi) ELSE SqrtIn(x, lo, mid - 1)
Sqrt(x) == SqrtIn(x, 0, 46340)

\* Python's s[a:b] for 0 <= a <= b <= len(s)
Slice(s, a, b) == SubSeq(s, a + 1, b)

\* int(n * 0.8)
SplitIdx(n) == (n * 8) \div 10

\* np.sqrt(mean_squared_error(actual, predicted)) and
\* mean_absolute_error(actual, predicted), of two sequences of one length >= 1
Rmse(actual, predicted) ==
    Sqrt(SumSeq([i \in 1 .. Len(actual) |-> (actual[i] - predicted[i]) * (actual[i] - predicted[i])])
            \div Len(actual))
Mae(actual, predicted) ==
    SumSeq([i \in 1 .. Len(actual) |-> Abs(actual[i] - predicted[i])]) \div Len(actual)

(***************************************************************************)
(* MinMaxScaler(feature_range=(0, 1)). A scaled value (x - min) / scale is *)
(* kept as its numerator x - min; scale is max - min, or 1 for a constant  *)
(* series.                                                                 *)
(***************************************************************************)
ScalerFit(d) ==
    [min |-> MinSeq(d), scale |-> IF MaxSeq(d) = MinSeq(d) THEN 1 ELSE MaxSeq(d) - MinSeq(d)]
Transform(sc, x) == x - sc.min
InverseTransform(sc, v) == v + sc.min

(***************************************************************************)
(* Window construction: the loops of prepare_data (lines 25-28) and of     *)
(* predict_random_forest (lines 123-127).                                  *)
(***************************************************************************)
\* for i in range(lo, hi): X.append(d[i-lookback:i]); y.append(d[i])
\* (i is the 0-based loop variable, d[i] is the TLA+ element i + 1; the
\* iterations are taken by halves)
RECURSIVE WindowLoop(_, _, _, _)
WindowLoop(d, lookback, lo, hi) ==
    IF lo >= hi THEN [X |-> <<>>, y |-> <<>>]
    ELSE IF lo + 1 = hi THEN [X |-> <<Slice(d, lo - lookback, lo)>>, y |-> <<d[lo + 1]>>]
    ELSE LET mid   == (lo + hi) \div 2
             first == WindowLoop(d, lookback, lo, mid)
             rest  == WindowLoop(d, lookback, mid, hi)
         IN  [X |-> first.X \o rest.X, y |-> first.y \o rest.y]

\* a loop that starts one position late: range(lookback + 1, len(d))
WindowsLate(d, lookback) == WindowLoop(d, lookback, lookback + 1, Len(d))

Windows(d, lookback) == WindowLoop(d, lookback, lookback, Len(d))

\* prepare_data: fit_transform raises ValueError on an array of 0 samples
prepare_data(d, lookback) ==
    IF Len(d) = 0
    THEN [raised |-> TRUE, scaler |-> [min |-> 0, scale |-> 1], X |-> <<>>, y |-> <<>>]
    ELSE LET sc     == ScalerFit(d)
             scaled == [i \in 1 .. Len(d) |-> Transform(sc, d[i])]
             w      == Windows(scaled, lookback)
         IN  [raised |-> FALSE, scaler |-> sc, X |-> w.X, y |-> w.y]

(***************************************************************************)
(* predict_lstm. What the fitted network computes is not in the source: a  *)
(* fit yields one of LstmWeights, and the network is a function of its     *)
(* weights and of the window it is given.                                  *)
(***************************************************************************)
\* model.predict(window)[0, 0], on scaled values
LstmPredict(w, window) ==
    CASE w = 1 -> window[Len(window)]
      [] w = 2 -> SumSeq(window) \div Len(window)
      [] OTHER -> window[1]

\* lines 85-89: the rollout from last_sequence; acc collects, per step, the
\* window given to the network and the prediction in price space
RECURSIVE LstmRollout(_, _, _, _, _)
LstmRollout(w, sc, last_sequence, k, acc) ==
    IF k <= 0 THEN acc
    ELSE LET next_pred == LstmPredict(w, last_sequence)
         IN  LstmRollout(w, sc, Append(Tail(last_sequence), next_pred), k - 1,
                         Append(acc, [window |-> last_sequence,
                                      pred   |-> InverseTransform(sc, next_pred)]))

predict_lstm(d, h, w) ==
    LET lookback == 60
        p        == prepare_data(d, lookback)
    IN  IF p.raised THEN Raised
        ELSE IF InsufficientData(p.X) THEN Returned(Absent, p.X, p.y, <<>>)
        \* fewer than two windows leave nothing to fit on (lines 60, 66 raise)
        ELSE IF SplitIdx(Len(p.X)) = 0 THEN Raised
        ELSE LET split_idx     == SplitIdx(Len(p.X))
                 X_test        == Slice(p.X, split_idx, Len(p.X))
                 y_test        == Slice(p.y, split_idx, Len(p.y))
                 test_predict  == [i \in 1 .. Len(X_test) |->
                                      InverseTransform(p.scaler, LstmPredict(w, X_test[i]))]
                 y_test_actual == [i \in 1 .. Len(y_test) |-> InverseTransform(p.scaler, y_test[i])]
                 steps         == LstmRollout(w, p.scaler, p.X[Len(p.X)], h, <<>>)
             IN  Returned(Forecast([i \in 1 .. Len(steps) |-> steps[i].pred],
                                   Rmse(y_test_actual, test_predict),
                                   Mae(y_test_actual, test_predict)),
                          p.X, p.y, steps)

(***************************************************************************)
(* predict_linear_regression: ordinary least squares on the day index.     *)
(***************************************************************************)
\* LinearRegression().fit on the days 0 .. n-1 and the prices y[1..n], then
\* predict at day x, rounded to the cent. The slope is kept as a reduced
\* fraction bn / bd of cents per day; prices are taken relative to y[1].
OlsPredict(y, x) ==
    LET n   == Len(y)
        Sx  == SumSeq([i \in 1 .. n |-> i - 1])
        Sxx == SumSeq([i \in 1 .. n |-> (i - 1) * (i - 1)])
        Sy  == SumSeq([i \in 1 .. n |-> y[i] - y[1]])
        Sxy == SumSeq([i \in 1 .. n |-> (i - 1) * (y[i] - y[1])])
        den == n * Sxx - Sx * Sx
        num == n * Sxy - Sx * Sy
        g   == IF den = 0 THEN 1 ELSE Gcd(Abs(num), den)
        bn  == IF den = 0 THEN 0 ELSE num \div g
        bd  == IF den = 0 THEN 1 ELSE den \div g
    IN  y[1] + RoundDiv(Sy * bd + bn * (n * x - Sx), n * bd)

\* an extrapolation that starts on the last observed day
FutureXFromLast(n, h) == [k \in 1 .. h |-> n - 1 + k - 1]

\* line 115: np.arange(len(data), len(data) + days_to_predict)
FutureX(n, h) == [k \in 1 .. h |-> n + k - 1]

predict_linear_regression(d, h) ==
    LET split_idx == SplitIdx(Len(d))
        y_train   == Slice(d, 0, split_idx)
        y_test    == Slice(d, split_idx, Len(d))
    IN  \* fit raises ValueError on an empty training set (line 105), predict
        \* on an empty future_X (line 116)
        IF split_idx = 0 \/ h <= 0 THEN Raised
        ELSE LET y_pred   == [i \in 1 .. Len(y_test) |-> OlsPredict(y_train, split_idx + i - 1)]
                 future_X == FutureX(Len(d), h)
             IN  Returned(Forecast([k \in 1 .. h |-> OlsPredict(y_train, future_X[k])],
                                   Rmse(y_test, y_pred), Mae(y_test, y_pred)),
                          <<>>, <<>>, <<>>)

(***************************************************************************)
(* predict_random_forest. The fitted forest is a function of the training  *)
(* windows and targets (random_state=42); every tree predicts a mean of    *)
(* training targets, so a prediction lies between their minimum and their  *)
(* maximum. A fit is one of ForestFits.                                    *)
(***************************************************************************)
\* the first training window whose last value is nearest to the window's
Nearest(X, window) ==
    LET dist(i) == Abs(X[i][Len(X[i])] - window[Len(window)])
    IN  CHOOSE i \in 1 .. Len(X) :
            \A j \in 1 .. Len(X) : dist(i) < dist(j) \/ (dist(i) = dist(j) /\ i <= j)

\* model.predict([window])[0]
ForestPredict(f, X_train, y_train, window) ==
    IF f = 1 THEN RoundDiv(SumSeq(y_train), Len(y_train))
             ELSE y_train[Nearest(X_train, window)]

\* a rollout that appends the prediction without dropping the oldest value
RECURSIVE ForestRolloutKeepsOldest(_, _, _, _, _, _)
ForestRolloutKeepsOldest(f, X_train, y_train, last_sequence, k, acc) ==
    IF k <= 0 THEN acc
    ELSE LET next_pred == ForestPredict(f, X_train, y_train, last_sequence)
         IN  ForestRolloutKeepsOldest(f, X_train, y_train, Append(last_sequence, next_pred), k - 1,
                                      Append(acc, [window |-> last_sequence, pred |-> next_pred]))

\* lines 155-158: the rollout from last_sequence
RECURSIVE ForestRollout(_, _, _, _, _, _)
ForestRollout(f, X_train, y_train, last_sequence, k, acc) ==
    IF k <= 0 THEN acc
    ELSE LET next_pred == ForestPredict(f, X_train, y_train, last_sequence)
         IN  ForestRollout(f, X_train, y_train, Append(Tail(last_sequence), next_pred), k - 1,
                           Append(acc, [window |-> last_sequence, pred |-> next_pred]))

predict_random_forest(d, h, f) ==
    LET lookback == 10
        w        == Windows(d, lookback)
    IN  IF InsufficientData(w.X) THEN Returned(Absent, w.X, w.y, <<>>)
        \* fewer than two windows leave nothing to fit on (line 142 raises)
        ELSE IF SplitIdx(Len(w.X)) = 0 THEN Raised
        ELSE LET split_idx == SplitIdx(Len(w.X))
                 X_train   == Slice(w.X, 0, split_idx)
                 y_train   == Slice(w.y, 0, split_idx)
                 X_test    == Slice(w.X, split_idx, Len(w.X))
                 y_test    == Slice(w.y, split_idx, Len(w.y))
                 y_pred    == [i \in 1 .. Len(X_test) |-> ForestPredict(f, X_train, y_train, X_test[i])]
                 steps     == ForestRollout(f, X_train, y_train,
                                            Slice(d, Len(d) - lookback, Len(d)), h, <<>>)
             IN  Returned(Forecast([i \in 1 .. Len(steps) |-> steps[i].pred],
                                   Rmse(y_test, y_pred), Mae(y_test, y_pred)),
                          w.X, w.y, steps)

(***************************************************************************)
(* predict_arima_simple: exponential smoothing, alpha = 0.3. The code      *)
(* computes in binary floating point, where each of the two products is    *)
(* rounded before they are added; here each product is rounded to the      *)
(* cent.                                                                   *)
(***************************************************************************)
\* a smoothing whose weights do not add up to 1
SmoothBiased(x, prev) == RoundDiv(3 * x, 10) + RoundDiv(6 * prev, 10)

\* alpha * x + (1 - alpha) * prev
Smooth(x, prev) == RoundDiv(3 * x, 10) + RoundDiv(7 * prev, 10)

\* lines 166-169: the smoothed values for the days lo .. hi (0-based), given
\* the smoothed value of day lo - 1 (the iterations are taken by halves)
RECURSIVE SmoothLoop(_, _, _, _)
SmoothLoop(d, lo, hi, prev) ==
    IF lo > hi THEN <<>>
    ELSE IF lo = hi THEN <<Smooth(d[lo + 1], prev)>>
    ELSE LET mid   == (lo + hi) \div 2
             first == SmoothLoop(d, lo, mid, prev)
         IN  first \o SmoothLoop(d, mid + 1, hi, first[Len(first)])

\* a rollout that runs one iteration too many
RECURSIVE ArimaRolloutOneMore(_, _, _, _)
ArimaRolloutOneMore(last_actual, last_value, k, acc) ==
    IF k < 0 THEN acc
    ELSE ArimaRolloutOneMore(last_actual, Smooth(last_actual, last_value), k - 1,
                             Append(acc, Smooth(last_actual, last_value)))

\* a rollout that smooths towards its own previous value, not the last price
RECURSIVE ArimaRolloutNotFixed(_, _, _, _)
ArimaRolloutNotFixed(last_actual, last_value, k, acc) ==
    IF k <= 0 THEN acc
    ELSE LET next_pred == Smooth(last_value, last_value)
         IN  ArimaRolloutNotFixed(last_actual, next_pred, k - 1, Append(acc, next_pred))

\* lines 184-187
RECURSIVE ArimaRollout(_, _, _, _)
ArimaRollout(last_actual, last_value, k, acc) ==
    IF k <= 0 THEN acc
    ELSE LET next_pred == Smooth(last_actual, last_value)
         IN  ArimaRollout(last_actual, next_pred, k - 1, Append(acc, next_pred))

predict_arima_simple(d, h) ==
    \* data[0] raises IndexError on an empty series (line 166)
    IF Len(d) = 0 THEN Raised
    ELSE LET res       == <<d[1]>> \o SmoothLoop(d, 1, Len(d) - 1, d[1])
             split_idx == SplitIdx(Len(d))
             y_test    == Slice(d, split_idx, Len(d))
             y_pred    == Slice(res, split_idx, Len(res))
         IN  [Returned(Forecast(ArimaRollout(d[Len(d)], res[Len(res)], h, <<>>),
                                Rmse(y_test, y_pred), Mae(y_test, y_pred)),
                       <<>>, <<>>, <<>>) EXCEPT !.smoothed = res]

(***************************************************************************)
(* predict_all_models: the dict literal of lines 193-198 evaluates the     *)
(* four calls in order; nothing catches an exception of any of them.       *)
(***************************************************************************)
ModelNames == {"lstm", "linear", "random_forest", "arima"}
NextModel(m) ==
    CASE m = "lstm" -> "linear" [] m = "linear" -> "random_forest"
      [] m = "random_forest" -> "arima" [] OTHER -> "done"

PredictCall(kind, L, h) ==
    /\ ppc = "idle"
    /\ data' = SeriesOf(kind, L) /\ horizon' = h
    /\ ppc' = "lstm" /\ results' = <<>> /\ raisedBy' = "none" /\ built' = NothingBuilt
    /\ UNCHANGED <<fetchVars, reqVars>>

\* one entry of the dict literal: the model's call returns, or raises out of
\* predict_all_models
RunModel(m, out) ==
    /\ ppc = m
    /\ IF out.raised
       THEN ppc' = "raised" /\ raisedBy' = m /\ UNCHANGED results
       ELSE ppc' = NextModel(m) /\ results' = (m :> out.res) @@ results /\ UNCHANGED raisedBy
    /\ built' = [model |-> m, X |-> out.X, y |-> out.y, steps |-> out.steps,
                 smoothed |-> out.smoothed]
    /\ UNCHANGED <<data, horizon>>
    /\ UNCHANGED <<fetchVars, reqVars>>

RunLstm   == \E w \in LstmWeights : RunModel("lstm", predict_lstm(data, horizon, w))
RunLinear == RunModel("linear", predict_linear_regression(data, horizon))
RunForest == \E f \in ForestFits : RunModel("random_forest", predict_random_forest(data, horizon, f))
RunArima  == RunModel("arima", predict_arima_simple(data, horizon))

\* the caller takes the mapping (or the exception)
PredictReturn ==
    /\ ppc \in {"done", "raised"}
    /\ data' = <<>> /\ horizon' = 0 /\ ppc' = "idle" /\ results' = <<>> /\ raisedBy' = "none"
    /\ built' = NothingBuilt
    /\ UNCHANGED <<fetchVars, reqVars>>

NextPredict ==
    \/ \E kind \in SeriesKinds, L \in LengthValues, h \in HorizonValues : PredictCall(kind, L, h)
    \/ RunLstm
    \/ RunLinear
    \/ RunForest
    \/ RunArima
    \/ PredictReturn

SpecPredict == Init /\ [][NextPredict]_vars

(***************************************************************************)
(* The four models called one at a time, as a caller of the class may.     *)
(***************************************************************************)
DirectCall(kind, L, h) ==
    /\ ppc = "idle"
    /\ data' = SeriesOf(kind, L) /\ horizon' = h
    /\ ppc' = "direct" /\ results' = <<>> /\ raisedBy' = "none" /\ built' = NothingBuilt
    /\ UNCHANGED <<fetchVars, reqVars>>

RunDirect(m, out) ==
    /\ ppc = "direct"
    /\ IF out.raised
       THEN ppc' = "raised" /\ raisedBy' = m /\ UNCHANGED results
       ELSE ppc' = "done" /\ results' = (m :> out.res) /\ UNCHANGED raisedBy
    /\ built' = [model |-> m, X |-> out.X, y |-> out.y, steps |-> out.steps,
                 smoothed |-> out.smoothed]
    /\ UNCHANGED <<data, horizon>>
    /\ UNCHANGED <<fetchVars, reqVars>>

DirectLstm   == \E w \in LstmWeights : RunDirect("lstm", predict_lstm(data, horizon, w))
DirectLinear == RunDirect("linear", predict_linear_regression(data, horizon))
DirectForest == \E f \in ForestFits : RunDirect("random_forest", predict_random_forest(data, horizon, f))
DirectArima  == RunDirect("arima", predict_arima_simple(data, horizon))

NextModels ==
    \/ \E kind \in SeriesKinds, L \in LengthValues, h \in HorizonValues : DirectCall(kind, L, h)
    \/ DirectLstm
    \/ DirectLinear
    \/ DirectForest
    \/ DirectArima
    \/ PredictReturn

SpecModels == Init /\ [][NextModels]_vars

(***************************************************************************)
(* Requests handled at the same time. app.run serves each request in a     *)
(* thread of its own; a request whose downloads all failed runs            *)
(* generate_demo_data (data_utils.py line 65), whose calls into np.random  *)
(* all go to the one generator of the process: the seeding of line 81 and  *)
(* the five draws of lines 90-99 are six calls, and another thread may run *)
(* between any two of them. The StockPredictionModels object and its       *)
(* scaler are built by the request itself (app/__init__.py line 203).      *)
(***************************************************************************)
ReqDays == 1 .. 2
Columns == <<"Open", "High", "Low", "Volume">>

\* the requests leave everything but the generator and their own variables
\* alone
ReqFrame ==
    UNCHANGED <<now, hashSeed, symbol, days, retries, fpc, attempt, log, result, ref, predictVars,
                route>>

\* lines 73-78: generate_demo_data is entered for the request's symbol and days
ReqCall(t, sym, d) ==
    /\ req[t].pc = "idle"
    /\ req' = [req EXCEPT ![t] = [NoRequest EXCEPT !.pc = "seed", !.symbol = sym, !.days = d]]
    /\ UNCHANGED rng
    /\ ReqFrame

\* line 81: np.random.seed(hash(symbol) % 2**32)
ReqSeed(t) ==
    /\ req[t].pc = "seed"
    /\ rng' = DemoSeed(hashSeed, req[t].symbol, rng)
    /\ req' = [req EXCEPT ![t].pc = "returns"]
    /\ ReqFrame

\* line 90: returns = np.random.normal(0.0005, 0.02, days)
ReqReturns(t) ==
    /\ req[t].pc = "returns"
    /\ rng' = Advance(rng, req[t].days)
    /\ req' = [req EXCEPT ![t].returns = Returns(rng, req[t].days), ![t].pc = "Open"]
    /\ ReqFrame

\* the draws of one column, from g on: lines 95, 96, 97 and 99
ColumnDraws(col, g, d) ==
    [i \in 1 .. d |->
        CASE col = "Open" -> DrawUniform(Advance(g, i - 1), -100, 100)
          [] col = "High" -> DrawUniform(Advance(g, i - 1), 100, 300)
          [] col = "Low"  -> DrawUniform(Advance(g, i - 1), -300, -100)
          [] OTHER        -> DrawRandint(Advance(g, i - 1), 50000000, 100000000)]

\* lines 93-101: the frame, from the returns and the four drawn columns
FrameOf(sym, d, today, rets, cols) ==
    LET dates  == DateRange(today, d)
        prices == Prices(sym, rets)
    IN  [i \in 1 .. d |->
            [Date     |-> Strftime(dates[i]),
             Open     |-> Offset(prices[i], cols[1][i]),
             High     |-> Offset(prices[i], cols[2][i]),
             Low      |-> Offset(prices[i], cols[3][i]),
             Close    |-> prices[i],
             Volume   |-> cols[4][i],
             AdjClose |-> prices[i]]]

\* lines 95-99: the next column of the dict literal is drawn; after the last
\* one the frame is built and returned to the request
ReqColumn(t) ==
    /\ \E c \in 1 .. Len(Columns) : req[t].pc = Columns[c]
    /\ LET r    == req[t]
           cols == Append(r.cols, ColumnDraws(r.pc, rng, r.days))
       IN  /\ rng' = Advance(rng, r.days)
           /\ req' = [req EXCEPT ![t] =
                        IF Len(cols) < Len(Columns)
                        THEN [r EXCEPT !.cols = cols, !.pc = Columns[Len(cols) + 1]]
                        ELSE [r EXCEPT !.cols = cols, !.pc = "fit",
                                       !.rows = FrameOf(r.symbol, r.days, now, r.returns, cols)]]
    /\ ReqFrame

\* get_closing_prices
Closes(rows) == [i \in 1 .. Len(rows) |-> rows[i].Close]

\* app/__init__.py line 203 and prediction_models.py line 23: the request's
\* own StockPredictionModels fits its scaler on the closing prices
ReqFit(t) ==
    /\ req[t].pc = "fit"
    /\ req' = [req EXCEPT ![t].scaler = Some(ScalerFit(Closes(req[t].rows))), ![t].pc = "inverse"]
    /\ UNCHANGED rng
    /\ ReqFrame

\* prediction_models.py lines 73-75 and 88: the scaler is read back
ReqInverse(t) ==
    /\ req[t].pc = "inverse"
    /\ LET sc == req[t].scaler[1]
           c  == Closes(req[t].rows)
       IN  req' = [req EXCEPT ![t].restored =
                                  [i \in 1 .. Len(c) |-> InverseTransform(sc, Transform(sc, c[i]))],
                              ![t].pc = "done"]
    /\ UNCHANGED rng
    /\ ReqFrame

\* the response is sent and the request's thread ends
ReqReturn(t) ==
    /\ req[t].pc = "done"
    /\ req' = [req EXCEPT ![t] = [NoRequest EXCEPT !.pc = "ended"]]
    /\ UNCHANGED rng
    /\ ReqFrame

NextRequests ==
    \/ \E t \in Threads, sym \in Symbols, d \in ReqDays : ReqCall(t, sym, d)
    \/ \E t \in Threads : ReqSeed(t)
    \/ \E t \in Threads : ReqReturns(t)
    \/ \E t \in Threads : ReqColumn(t)
    \/ \E t \in Threads : ReqFit(t)
    \/ \E t \in Threads : ReqInverse(t)
    \/ \E t \in Threads : ReqReturn(t)

SpecRequests == Init /\ [][NextRequests]_vars

(***************************************************************************)
(* The /prediction route (app/__init__.py lines 171-264), POST. Its fetch  *)
(* asks for 365 days with 3 retries, which never raises and never returns  *)
(* an empty frame; what comes back is a series of closing prices, here one *)
(* of SeriesKinds with a length of RouteLengths. The call of               *)
(* predict_all_models is the one modelled above.                           *)
(***************************************************************************)
RouteSymbols  == {"", "AAPL"}
RouteHorizons == {0, 1, 30, 31}
RouteLengths  == {1, 59, 60, 69, 70}

RespondOnly(r, st) == [r EXCEPT !.pc = "responded", !.status = st]

\* lines 178-180: the request's JSON is read
RouteCall(sym, h) ==
    /\ route.pc \in {"idle", "responded"}
    /\ route' = [NoRoute EXCEPT !.pc = "validate", !.symbol = sym, !.days_to_predict = h]
    /\ data' = <<>> /\ horizon' = 0 /\ ppc' = "idle" /\ results' = <<>> /\ raisedBy' = "none"
    /\ built' = NothingBuilt
    /\ UNCHANGED <<fetchVars, req>>

\* a validation that looks at the symbol only
InvalidSymbolOnly(sym, h) == sym = ""

\* lines 183 and 186: not stock_symbol; days_to_predict < 1 or days_to_predict > 30
Invalid(sym, h) == sym = "" \/ h < 1 \/ h > 30

\* lines 183-187: validation, 400 on an empty symbol or a horizon outside 1..30
RouteValidate ==
    /\ route.pc = "validate"
    /\ route' = IF Invalid(route.symbol, route.days_to_predict)
                THEN RespondOnly(route, 400)
                ELSE [route EXCEPT !.pc = "fetch"]
    /\ UNCHANGED <<fetchVars, predictVars, req>>

\* lines 191 and 197: fetch_stock_data returns, get_closing_prices
RouteFetch(kind, L) ==
    /\ route.pc = "fetch"
    /\ route' = [route EXCEPT !.pc = "check", !.fetched = TRUE, !.closing_prices = SeriesOf(kind, L)]
    /\ UNCHANGED <<fetchVars, predictVars, req>>

\* lines 193-204: 400 on an empty frame or on fewer than 60 closing prices;
\* otherwise a StockPredictionModels is built and predict_all_models called
RouteCheck ==
    /\ route.pc = "check"
    /\ IF Len(route.closing_prices) = 0 \/ Len(route.closing_prices) < 60
       THEN /\ route' = RespondOnly(route, 400)
            /\ UNCHANGED predictVars
       ELSE /\ route' = [route EXCEPT !.pc = "fit"]
            /\ data' = route.closing_prices /\ horizon' = route.days_to_predict
            /\ ppc' = "lstm" /\ results' = <<>> /\ raisedBy' = "none" /\ built' = NothingBuilt
    /\ UNCHANGED <<fetchVars, req>>

\* _to_list: [] for None
ToList(p) == IF p = None THEN <<>> ELSE p[1]

\* prepare_metrics_data (data_utils.py lines 167-175): round(x, 4) of every
\* RMSE and MAE; round(None, 4) raises TypeError
MetricsRaises(res) == \E m \in ModelNames : res[m].rmse = None \/ res[m].mae = None
prepare_metrics_data(res) ==
    [m \in ModelNames |-> [RMSE |-> res[m].rmse[1], MAE |-> res[m].mae[1]]]

\* lines 206-264: predict_all_models has returned or raised; the results are
\* unpacked, the chart, comparison and metrics data prepared, the Prediction
\* stored and the response sent; any exception on the way gives a 500
RouteAssemble ==
    /\ route.pc = "fit" /\ ppc \in {"done", "raised"}
    /\ route' = IF ppc = "raised" \/ MetricsRaises(results)
                THEN RespondOnly(route, 500)
                ELSE [route EXCEPT !.pc = "responded", !.status = 200, !.stored = TRUE,
                                   !.predictions = [m \in ModelNames |-> ToList(results[m].pred)],
                                   !.metrics = prepare_metrics_data(results)]
    /\ UNCHANGED <<fetchVars, predictVars, req>>

NextRoute ==
    \/ \E sym \in RouteSymbols, h \in RouteHorizons : RouteCall(sym, h)
    \/ RouteValidate
    \/ \E kind \in SeriesKinds, L \in RouteLengths : RouteFetch(kind, L)
    \/ RouteCheck
    \/ RunLstm
    \/ RunLinear
    \/ RunForest
    \/ RunArima
    \/ RouteAssemble

SpecRoute == Init /\ [][NextRoute]_vars

(***************************************************************************)
(* Properties of fetch_stock_data and generate_demo_data.                  *)
(***************************************************************************)
Tries == {i \in 1 .. Len(log) : log[i].ev = "try"}
Sleeps == {i \in 1 .. Len(log) : log[i].ev = "sleep"}
TriesUpTo(i) == Cardinality({j \in Tries : j <= i})
FetchEnded == fpc \in {"done", "raised"}
AllTriesFailed == \A i \in Tries : ~Accepted(log[i].out)

\* C1: fetch_stock_data never raises to its caller, whatever the symbol, days,
\* retries and the behaviour of the download, including a failure inside the
\* fallback generation.
C1_NeverRaises == fpc # "raised"

\* C2: a call returns upstream data iff some attempt returned a non-empty
\* response, and then the first such response, with no later attempt; it
\* returns the demo series iff every attempt failed (raised, empty or None);
\* an empty response is never the result.
C2_ResultIffAttempts ==
    FetchEnded =>
        /\ (fpc = "done" /\ result.kind = "upstream") <=> ~AllTriesFailed
        /\ ~AllTriesFailed =>
              /\ Accepted(log[Len(log)].out)
              /\ \A i \in Tries : Accepted(log[i].out) => i = Len(log)
              /\ result.rows = ResetIndex(UpstreamFrame(now, log[Len(log)].out.n))
              /\ result.rows # <<>>
        /\ (fpc = "done" /\ result.kind = "demo") <=> AllTriesFailed

\* C2, for the calls that return: the same statement with the calls that end
\* by an exception left out.
C2_ResultIffAttemptsWhenReturned ==
    fpc = "done" =>
        /\ result.kind = "upstream" <=> ~AllTriesFailed
        /\ ~AllTriesFailed =>
              /\ Accepted(log[Len(log)].out)
              /\ \A i \in Tries : Accepted(log[i].out) => i = Len(log)
              /\ result.rows = ResetIndex(UpstreamFrame(now, log[Len(log)].out.n))
        /\ result.kind = "demo" <=> AllTriesFailed
        /\ AllTriesFailed => Cardinality(Tries) = IF retries > 0 THEN retries ELSE 0

\* C3: the attempts are numbered 1..retries at most; the wait after attempt k
\* is 5*k seconds, after an empty response and after an exception alike; a wait
\* stands only between two attempts: after a failed attempt that another
\* attempt follows, never after the last attempt, never after a success.
C3_Backoff ==
    /\ \A i \in Tries : TriesUpTo(i) <= retries
    /\ \A i \in Sleeps :
          /\ i > 1 /\ log[i - 1].ev = "try" /\ ~Accepted(log[i - 1].out)
          /\ log[i].secs = 5 * TriesUpTo(i)
          /\ IF i < Len(log) THEN log[i + 1].ev = "try"
                             ELSE fpc = "loop" /\ attempt < retries
    /\ \A i \in Tries : i < Len(log) => log[i + 1].ev = "sleep"

C3_Witness ==
    /\ fpc = "done" /\ result.kind = "demo" /\ retries = 3
    /\ log = <<TryEvent([st |-> "error", n |-> 0]), [ev |-> "sleep", secs |-> 5],
               TryEvent([st |-> "empty", n |-> 0]), [ev |-> "sleep", secs |-> 10],
               TryEvent([st |-> "none", n |-> 0])>>

DemoReturned == fpc = "done" /\ result.kind = "demo"

\* the Date column: one row per calendar day, ascending, the last one today
DatesDailyUpToToday(rows) ==
    /\ \A i \in 1 .. Len(rows) - 1 :
          /\ DateLess(rows[i].Date, rows[i + 1].Date)
          /\ Ordinal(rows[i + 1].Date) = Ordinal(rows[i].Date) + 1
    /\ rows # <<>> => Ordinal(rows[Len(rows)].Date) = now

\* C4 as stated: for any days, a synthetic result is non-empty, has exactly
\* `days` rows, and its dates ascend day by day up to the current day.
C4_DemoShape ==
    DemoReturned =>
        /\ result.rows # <<>>
        /\ Len(result.rows) = days
        /\ DatesDailyUpToToday(result.rows)

\* C4, amended: a synthetic result has exactly `days` rows, its dates ascending
\* day by day up to the current day; it is non-empty when days >= 1 (and the
\* empty series when days = 0).
C4_DemoShapePositiveDays ==
    DemoReturned =>
        /\ Len(result.rows) = days
        /\ days >= 1 => result.rows # <<>>
        /\ DatesDailyUpToToday(result.rows)

C4_Witness ==
    /\ DemoReturned /\ days = 3
    /\ [i \in 1 .. 3 |-> result.rows[i].Date] = <<<<2024, 2, 28>>, <<2024, 2, 29>>, <<2024, 3, 1>>>>

\* the value columns of a frame, without the dates
Values(rows) ==
    [i \in 1 .. Len(rows) |->
        <<rows[i].Open, rows[i].High, rows[i].Low, rows[i].Close, rows[i].Volume, rows[i].AdjClose>>]

SameCallAsRef == DemoReturned /\ ref.kind = "demo" /\ ref.symbol = symbol /\ ref.days = days

\* C5: two calls that fall back for the same symbol and the same days yield the
\* same Open/High/Low/Close/Volume values row by row, whatever calls for other
\* symbols and whatever other draws from the generator happened in between.
C5_Deterministic == SameCallAsRef => Values(result.rows) = Values(ref.rows)

C5_Witness ==
    /\ SameCallAsRef /\ days = 3
    /\ result.rows[3].Date # ref.rows[3].Date
    /\ \E i, j \in 1 .. 3 : result.rows[i].Close # result.rows[j].Close

(***************************************************************************)
(* Properties of the models and of predict_all_models.                     *)
(***************************************************************************)
IsFull(res) == res.pred # None /\ res.rmse # None /\ res.mae # None

\* C6: in predict_all_models a model that fails, by an exception or by
\* insufficient data, does not stop the other three: the call never ends by the
\* exception, and it returns all four keys.
C6_FailureIsolated ==
    /\ ppc # "raised"
    /\ ppc = "done" => DOMAIN results = ModelNames

\* C7: on a series of exactly 60 prices and a horizon in 1..30,
\* predict_all_models does not throw and returns exactly the four keys, each a
\* full result or the absent one.
C7_Length60 ==
    (Len(data) = 60 /\ horizon \in 1 .. 30) =>
        /\ ppc # "raised"
        /\ ppc = "done" =>
              /\ DOMAIN results = ModelNames
              /\ \A m \in ModelNames : IsFull(results[m]) \/ results[m] = Absent

C7_Witness ==
    /\ Len(data) = 60 /\ horizon = 30 /\ ppc = "done"
    /\ results["lstm"] = Absent
    /\ \A m \in ModelNames \ {"lstm"} : IsFull(results[m])

\* the windows of series s with the given lookback, as the claim states them
WindowsAsStated(s, lookback, X, y) ==
    LET n == IF lookback < Len(s) THEN Len(s) - lookback ELSE 0
    IN  /\ Len(X) = n /\ Len(y) = n
        /\ \A j \in 0 .. n - 1 :
              /\ X[j + 1] = [k \in 1 .. lookback |-> s[j + k]]
              /\ y[j + 1] = s[j + lookback + 1]

Scaled(d) == [i \in 1 .. Len(d) |-> Transform(ScalerFit(d), d[i])]

\* C8: prepare_data (lookback 60, on the scaled series) and
\* predict_random_forest (lookback 10) build, from a series of length L,
\* exactly L - lookback windows in order, window j being positions
\* j .. j+lookback-1 and its target position j+lookback; empty X and y when
\* lookback >= L.
C8_Windows ==
    /\ raisedBy # "lstm"
    /\ built.model = "lstm" /\ raisedBy = "none" => WindowsAsStated(Scaled(data), 60, built.X, built.y)
    /\ built.model = "random_forest" => WindowsAsStated(data, 10, built.X, built.y)

\* C8 on the series that are not empty
C8_WindowsNonEmptySeries ==
    Len(data) >= 1 =>
        /\ raisedBy # "lstm"
        /\ built.model = "lstm" => WindowsAsStated(Scaled(data), 60, built.X, built.y)
        /\ built.model = "random_forest" => WindowsAsStated(data, 10, built.X, built.y)

\* C9: every result a model returns is a full one, whose prediction sequence
\* has exactly `horizon` elements and whose RMSE and MAE are not null, or the
\* absent one, all three fields null.
C9_ResultShape ==
    \A m \in DOMAIN results :
        \/ results[m] = Absent
        \/ IsFull(results[m]) /\ Len(results[m].pred[1]) = horizon

C9_Witness ==
    /\ ppc = "done" /\ horizon = 30
    /\ "arima" \in DOMAIN results /\ Len(results["arima"].pred[1]) = 30

C9_WitnessHorizon0 ==
    /\ ppc = "done" /\ horizon = 0
    /\ "lstm" \in DOMAIN results /\ results["lstm"].pred = Some(<<>>)

Flat60 == data = SeriesOf("flat", 60) /\ horizon = 5

NearFlat(res) ==
    /\ IsFull(res)
    /\ res.pred[1] = [k \in 1 .. 5 |-> 10000]
    /\ res.rmse = Some(0) /\ res.mae = Some(0)

\* C10 as stated: each of the four models, given 60 equal prices and
\* horizon 5, returns a result that is not absent: 5 predictions at that price
\* and RMSE and MAE 0.
C10_FlatSeries == Flat60 => \A m \in DOMAIN results : NearFlat(results[m])

\* C10, amended: linear, random_forest and arima do; lstm returns the absent
\* result, 60 prices being fewer than the 70 it needs for 10 windows.
C10_FlatSeriesButLstm ==
    Flat60 =>
        \A m \in DOMAIN results :
            IF m = "lstm" THEN results[m] = Absent ELSE NearFlat(results[m])

C10_Witness == Flat60 /\ ppc = "done" /\ "random_forest" \in DOMAIN results

\* the future projection of predict_arima_simple, when it has returned one
ArimaDone == ppc = "done" /\ "arima" \in DOMAIN results
Projection == results["arima"].pred[1]
LastActual == data[Len(data)]

\* C11: the projection f of predict_arima_simple never moves away from the
\* last price of the series and never crosses it:
\* |f[k+1] - last| <= |f[k] - last| and f[k], f[k+1] lie on one side of last.
C11_MonotoneConvergence ==
    ArimaDone =>
        \A k \in 1 .. Len(Projection) - 1 :
            /\ Abs(Projection[k + 1] - LastActual) <= Abs(Projection[k] - LastActual)
            /\ (Projection[k + 1] - LastActual) * (Projection[k] - LastActual) >= 0

\* C11 up to the rounding of the arithmetic: a deviation grows by no more
\* than the one unit the two rounded products can add
C11_MonotoneUpToRounding ==
    ArimaDone =>
        \A k \in 1 .. Len(Projection) - 1 :
            \/ Abs(Projection[k + 1] - LastActual) <= Abs(Projection[k] - LastActual)
            \/ Abs(Projection[k + 1] - LastActual) <= 1

\* the series price[i] = 10 + 2 * i, and what the claim states of the linear
\* model's result on it: no error on the held-out tail, and the k-th future
\* prediction (k from 0) at 10 + 2 * (L + k)
IsLinearSeries == data = SeriesOf("linear", Len(data))
LinearRecovered ==
    /\ raisedBy # "linear"
    /\ "linear" \in DOMAIN results =>
          /\ IsFull(results["linear"])
          /\ results["linear"].rmse = Some(0) /\ results["linear"].mae = Some(0)
          /\ results["linear"].pred[1] =
                 [k \in 1 .. horizon |-> 1000 + 200 * (Len(data) + k - 1)]

\* C12 as stated: on the series 10 + 2 * i of any length L >= 2,
\* predict_linear_regression recovers slope 2 and intercept 10: RMSE and MAE
\* are 0 and the future predictions continue the line from day L.
C12_LinearSeries == (IsLinearSeries /\ Len(data) >= 2) => LinearRecovered

\* C12, amended: it does for L >= 3 and a horizon of at least 1. With L = 2
\* the fit sees int(2 * 0.8) = 1 point and returns the constant 10.
C12_LinearSeriesFrom3 ==
    (IsLinearSeries /\ Len(data) >= 3 /\ horizon >= 1) => LinearRecovered

C12_Witness ==
    /\ IsLinearSeries /\ Len(data) = 70 /\ horizon = 30
    /\ ppc = "done" /\ "linear" \in DOMAIN results

(***************************************************************************)
(* Properties of requests handled at the same time.                        *)
(***************************************************************************)
HasSeries(t) == req[t].pc \in {"fit", "inverse", "done"}

\* the series the request's call of generate_demo_data returns when no other
\* request runs
Alone(t) == generate_demo_data(req[t].symbol, req[t].days, now, hashSeed, rng).rows

\* C13: whatever the interleaving of two requests, the series each one gets
\* is the one it gets when run alone, and what it reads back through its
\* scaler is its own closing prices.
C13_NoInterference ==
    \A t \in Threads :
        /\ HasSeries(t) => req[t].rows = Alone(t)
        /\ req[t].pc = "done" => req[t].restored = Closes(Alone(t))

\* the part of C13 that is about the scaler: a request reads back, through
\* the scaler it fitted, the closing prices of the series it was given
C13_OwnScaler ==
    \A t \in Threads : req[t].pc = "done" => req[t].restored = Closes(req[t].rows)

(***************************************************************************)
(* Properties of the rollouts.                                             *)
(***************************************************************************)
\* the model m has run its rollout on the series
RolledOut(m) == built.model = m /\ raisedBy = "none" /\ Len(built.steps) > 0

\* the window of step k (from 0) of a rollout with the given lookback that
\* starts from the values known[1 .. last]: the last lookback - k of them,
\* then the first k predictions in order
RolloutWindow(known, last, lookback, preds, k) ==
    IF k >= lookback THEN SubSeq(preds, k - lookback + 1, k)
    ELSE SubSeq(known, last - lookback + k + 1, last) \o SubSeq(preds, 1, k)

\* the predictions of the lstm rollout, on the scale of its windows
ScaledPreds == [i \in 1 .. Len(built.steps) |-> Transform(ScalerFit(data), built.steps[i].pred)]

\* C14: in predict_lstm's rollout on a series of length L >= 70, the window of
\* step k is the last 60 - k scaled values of the series, up to and including
\* the most recent one, followed by the first k predictions.
C14_LstmRollout ==
    (RolledOut("lstm") /\ Len(data) >= 70) =>
        \A k \in 0 .. Len(built.steps) - 1 :
            built.steps[k + 1].window = RolloutWindow(Scaled(data), Len(data), 60, ScaledPreds, k)

\* what the rollout does: its windows start from the last training window
\* X[-1], the 60 values before the most recent one
C14_LstmRolloutFromLastWindow ==
    (RolledOut("lstm") /\ Len(data) >= 70) =>
        \A k \in 0 .. Len(built.steps) - 1 :
            built.steps[k + 1].window = RolloutWindow(Scaled(data), Len(data) - 1, 60, ScaledPreds, k)

ForestPreds == [i \in 1 .. Len(built.steps) |-> built.steps[i].pred]

\* C15: in predict_random_forest's rollout the window of every step k has 10
\* elements, the last max(10 - k, 0) prices of the series followed by the
\* min(k, 10) most recent predictions in order; each step drops the oldest
\* element and appends the newest prediction; the input series is left as it
\* was given.
C15_ForestRollout ==
    RolledOut("random_forest") =>
        /\ Len(built.steps) = horizon
        /\ \A k \in 0 .. Len(built.steps) - 1 :
              /\ Len(built.steps[k + 1].window) = 10
              /\ built.steps[k + 1].window = RolloutWindow(data, Len(data), 10, ForestPreds, k)
        /\ \A k \in 1 .. Len(built.steps) - 1 :
              built.steps[k + 1].window =
                  Append(Tail(built.steps[k].window), built.steps[k].pred)
        /\ \E kind \in SeriesKinds : data = SeriesOf(kind, Len(data))

C15_Witness ==
    /\ RolledOut("random_forest") /\ horizon = 30 /\ Len(data) = 20
    /\ data = SeriesOf("step", 20)
    /\ built.steps[30].window = [i \in 1 .. 10 |-> built.steps[19 + i].pred]

\* model m, called with fewer than `least` prices, returned the absent result
\* without a rollout, and with at least that many a full one
AbsentBelow(m, least) ==
    /\ raisedBy # m
    /\ m \in DOMAIN results =>
          /\ results[m] = Absent <=> Len(data) < least
          /\ results[m] = Absent => built.steps = <<>>
          /\ results[m] # Absent => IsFull(results[m])

\* C16: insufficient data is reported as the absent result and never as an
\* exception: predict_lstm returns it if and only if the series has fewer
\* than 70 prices, predict_random_forest if and only if it has fewer than 20.
C16_InsufficientData == AbsentBelow("lstm", 70) /\ AbsentBelow("random_forest", 20)

\* C16 on the series that are not empty
C16_InsufficientDataNonEmptySeries ==
    Len(data) >= 1 => AbsentBelow("lstm", 70) /\ AbsentBelow("random_forest", 20)

\* alpha * x + (1 - alpha) * prev with alpha = 0.3, in cents
Alpha03(x, prev) == RoundDiv(3 * x, 10) + RoundDiv(7 * prev, 10)

\* C17: predict_arima_simple computes the smoothed series s of the length of
\* the input with s[0] = price[0] and s[i] = 0.3 * price[i] + 0.7 * s[i-1],
\* and a projection whose first value is 0.3 * price[L-1] + 0.7 * s[L-1] and
\* whose every later value is 0.3 * price[L-1] + 0.7 * the value before it.
C17_Recurrences ==
    (built.model = "arima" /\ raisedBy = "none") =>
        LET s == built.smoothed
            f == results["arima"].pred[1]
            L == Len(data)
        IN  /\ Len(s) = L /\ s[1] = data[1]
            /\ \A i \in 2 .. L : s[i] = Alpha03(data[i], s[i - 1])
            /\ Len(f) = horizon
            /\ \A k \in 1 .. Len(f) :
                  f[k] = Alpha03(data[L], IF k = 1 THEN s[L] ELSE f[k - 1])

C17_Witness ==
    /\ built.model = "arima" /\ raisedBy = "none" /\ horizon = 30
    /\ data = SeriesOf("step", 70)
    /\ built.smoothed[70] # data[70]
    /\ results["arima"].pred[1][1] # results["arima"].pred[1][2]

(***************************************************************************)
(* Properties of the /prediction route.                                    *)
(***************************************************************************)
Responded == route.pc = "responded"
ValidRequest == route.symbol # "" /\ route.days_to_predict \in 1 .. 30

\* C18: a request whose fetched series has 60 to 69 closing prices (the lstm
\* result is absent, the other three are full) and whose horizon is valid
\* ends successfully, with the three models' predictions and metrics and the
\* lstm reported absent.
C18_DegradesGracefully ==
    (Responded /\ ValidRequest /\ Len(route.closing_prices) \in 60 .. 69) =>
        /\ route.status = 200
        /\ route.predictions["lstm"] = <<>>
        /\ \A m \in ModelNames \ {"lstm"} :
              /\ Len(route.predictions[m]) = route.days_to_predict
              /\ route.metrics[m].RMSE = results[m].rmse[1]

\* what the route does with such a series: the three models return full
\* results, and the request fails as a whole with a 500 and stores nothing
C18_FailsAsAWhole ==
    (Responded /\ ValidRequest /\ Len(route.closing_prices) \in 60 .. 69) =>
        /\ route.status = 500 /\ ~route.stored
        /\ results["lstm"] = Absent
        /\ \A m \in ModelNames \ {"lstm"} : IsFull(results[m])

ModelInvoked == ppc # "idle"

\* C19: in every request to /prediction the steps come in the order validate,
\* fetch, fit, assemble: nothing is fetched and no model is invoked for an
\* empty symbol or a horizon outside 1..30; no model is invoked before the
\* fetch has returned, nor for a series that is empty or shorter than 60; the
\* Prediction is stored and the success response sent only after all four
\* models have returned.
C19_Order ==
    /\ route.pc = "validate" => ~route.fetched /\ ~ModelInvoked
    /\ ~ValidRequest => ~route.fetched /\ ~ModelInvoked
    /\ route.pc = "fetch" => ~ModelInvoked
    /\ ModelInvoked => route.fetched /\ Len(route.closing_prices) >= 60
    /\ (route.stored \/ route.status = 200) =>
          /\ Responded /\ route.stored /\ route.status = 200
          /\ ppc = "done" /\ DOMAIN results = ModelNames

C19_Witness ==
    /\ Responded /\ route.status = 200 /\ route.stored
    /\ Len(route.closing_prices) = 70 /\ route.days_to_predict = 30
    /\ \A m \in ModelNames : Len(route.predictions[m]) = 30

(***************************************************************************)
(* Termination of fetch_stock_data.                                        *)
(***************************************************************************)
FetchRunning == fpc \in {"loop", "except"}
SleepSecs == [i \in 1 .. Len(log) |-> IF log[i].ev = "sleep" THEN log[i].secs ELSE 0]

\* C20: every call of fetch_stock_data, whatever its retries and whatever
\* the downloads do, eventually returns.
C20_Returns == FetchRunning ~> (fpc = "done")

\* every call ends: it returns or, with the days of C1, raises
C20_Ends == FetchRunning ~> FetchEnded

\* the rest of C20: the attempts are at most retries, the successive waits
\* never decrease, and the time slept in one call is at most
\* 5 * retries * (retries - 1) / 2 seconds
C20_BoundedWaits ==
    /\ Cardinality(Tries) <= IF retries > 0 THEN retries ELSE 0
    /\ \A i, j \in Sleeps : i < j => log[i].secs <= log[j].secs
    /\ 2 * SumSeq(SleepSecs) <= 5 * retries * (retries - 1)

====
